---- MODULE Spec2Model ----
(***************************************************************************)
(* Model of the Google Takeout reorganisation scripts:                     *)
(*   - merge-google-takeout.ts : reorganizeOnSmb (Driver) and              *)
(*     mergeDirectoryContents (Mover);                                     *)
(*   - the EXIF/rename script  : processGoogleTakeout and processDirectory *)
(*     (Renamer).                                                          *)
(* Strings are TLA+ strings; the JavaScript string functions the scripts   *)
(* use are defined below character by character.                           *)
(***************************************************************************)
EXTENDS Integers, Sequences, FiniteSets, TLC

(***************************************************************************)
(* JavaScript string primitives                                            *)
(***************************************************************************)
Char(s, i) == SubSeq(s, i, i)

\* the characters /\s/ and String.prototype.trim treat as white space
IsSpace(c) == c \in {" ", "\t", "\r"}

UpperCaseLetters == "ABCDEFGHIJKLMNOPQRSTUVWXYZ"

LowerCaseLetters == "abcdefghijklmnopqrstuvwxyz"

DecimalDigits == "0123456789"

\* s.includes(sub)
Includes(s, sub) ==
  \E i \in 1..(Len(s) - Len(sub) + 1) : SubSeq(s, i, i + Len(sub) - 1) = sub

\* s.startsWith(p)
StartsWith(s, p) == Len(p) <= Len(s) /\ SubSeq(s, 1, Len(p)) = p

\* s.endsWith(p)
EndsWith(s, p) == Len(p) <= Len(s) /\ SubSeq(s, Len(s) - Len(p) + 1, Len(s)) = p

\* s.indexOf(sub), 1-based; 0 when sub does not occur
IndexOf(s, sub) ==
  LET hits == {i \in 1..(Len(s) - Len(sub) + 1) : SubSeq(s, i, i + Len(sub) - 1) = sub}
  IN  IF hits = {} THEN 0 ELSE CHOOSE i \in hits : \A j \in hits : i <= j

LowerCaseOf ==
  [c \in {Char(UpperCaseLetters, k) : k \in 1..Len(UpperCaseLetters)} |->
     Char(LowerCaseLetters, IndexOf(UpperCaseLetters, c))]

LowerChar(c) == IF c \in DOMAIN LowerCaseOf THEN LowerCaseOf[c] ELSE c

RECURSIVE ToLowerCase(_)
\* s.toLowerCase()
ToLowerCase(s) ==
  IF s = "" THEN "" ELSE LowerChar(Head(s)) \o ToLowerCase(Tail(s))

\* Names that occur in the model's shares.  The tables below hold the value
\* of a string function on them, computed once; any other string is computed
\* when it is met.
KnownNames ==
  { ".", "..", "Album", "clip.mp4", "merged", "processed", "Google Photos",
    "Takeout 1", "Takeout 2", "Takeout D 3", "Archive",
    "IMG_0001.jpg", "IMG_0001.jpg.json", "IMG_0001-edited.jpg",
    "IMG_0002.JPG", "IMG_0002.JPG.json", "IMG_0002-EDITED.JPG",
    "2021-01-01_00-00-00.jpg", "2021-01-01_00-00-00(1).jpg",
    "2021-01-01_00-00-00(2).jpg", "2021-01-01_00-00-00(3).jpg",
    "2004-02-29_23-59-59.jpg", "2004-02-29_23-59-59(1).jpg",
    "2004-02-29_23-59-59(2).jpg", "JPEG", "jpg", "mp4", "",
    ".nomedia", ".trash", "IMG D 3.jpg", "IMG  0001.jpg", "Takeout.zip",
    "IMG_0001-edited.jpg.json" }

LowerCased == [n \in KnownNames |-> ToLowerCase(n)]

Lower(s) == IF s \in KnownNames THEN LowerCased[s] ELSE ToLowerCase(s)

RECURSIVE TrimStart(_)
TrimStart(s) ==
  IF s # "" /\ IsSpace(Head(s)) THEN TrimStart(Tail(s)) ELSE s

RECURSIVE TrimEnd(_)
TrimEnd(s) ==
  IF s # "" /\ IsSpace(Char(s, Len(s))) THEN TrimEnd(SubSeq(s, 1, Len(s) - 1)) ELSE s

\* s.trim()
Trim(s) == TrimEnd(TrimStart(s))

\* s.split(/\s{2,}/)[0] : the text before the first run of two or more spaces
FirstColumn(s) ==
  LET runs == {i \in 1..(Len(s) - 1) : IsSpace(Char(s, i)) /\ IsSpace(Char(s, i + 1))}
  IN  IF runs = {} THEN s
      ELSE SubSeq(s, 1, (CHOOSE i \in runs : \A j \in runs : i <= j) - 1)

\* s.split(sep)[0] for a separator string
BeforeFirst(s, sep) ==
  LET k == IndexOf(s, sep) IN IF k = 0 THEN s ELSE SubSeq(s, 1, k - 1)

\* name.replace(/-edited/i, "") : removes the first match only
ReplaceEdited(name) ==
  LET k == IndexOf(Lower(name), "-edited")
  IN  IF k = 0 THEN name
      ELSE SubSeq(name, 1, k - 1) \o SubSeq(name, k + Len("-edited"), Len(name))

RECURSIVE NumberToString(_)
\* String(n) for a non-negative integer
NumberToString(n) ==
  IF n < 10 THEN Char(DecimalDigits, n + 1)
  ELSE NumberToString(n \div 10) \o Char(DecimalDigits, (n % 10) + 1)

\* String(n).padStart(2, "0")
PadStart2(n) ==
  LET s == NumberToString(n) IN IF Len(s) < 2 THEN "0" \o s ELSE s

RECURSIVE DigitPrefix(_)
DigitPrefix(s) ==
  IF s # "" /\ IndexOf(DecimalDigits, Head(s)) # 0
  THEN Head(s) \o DigitPrefix(Tail(s)) ELSE ""

RECURSIVE DigitsValue(_)
DigitsValue(s) ==
  IF s = "" THEN 0
  ELSE 10 * DigitsValue(SubSeq(s, 1, Len(s) - 1))
       + (IndexOf(DecimalDigits, Char(s, Len(s))) - 1)

\* NaN, the not-a-number value (no valid epoch is negative here)
NaN == 0 - 1

\* parseInt(s, 10) for an unsigned decimal string: NaN without leading digits
ParseInt(s) ==
  LET d == DigitPrefix(TrimStart(s)) IN IF d = "" THEN NaN ELSE DigitsValue(d)

\* path.extname(name).substring(1)
ExtName(name) ==
  LET dots == {i \in 2..Len(name) : Char(name, i) = "."}
  IN  IF dots = {} THEN ""
      ELSE SubSeq(name, (CHOOSE i \in dots : \A j \in dots : i >= j) + 1, Len(name))

(***************************************************************************)
(* Date formatting (formatDate, formatExifDate).  A Date is modelled by    *)
(* its epoch seconds (the script multiplies by 1000 and the getters divide *)
(* again); the local time zone is UTC+0.                                   *)
(***************************************************************************)
\* the calendar fields of a Date (getFullYear, getMonth() + 1, getDate, ...),
\* computed from the day number in steps: era and day of era, year of era,
\* day of year, month
FieldsOfMonth(y, doy, mp, rem) ==
  [YYYY |-> y + (IF mp < 10 THEN 0 ELSE 1),
   MM   |-> IF mp < 10 THEN mp + 3 ELSE mp - 9,
   DD   |-> doy - (153 * mp + 2) \div 5 + 1,
   hh   |-> rem \div 3600,
   mm   |-> (rem % 3600) \div 60,
   ss   |-> rem % 60]

FieldsOfDayOfYear(y, doy, rem) == FieldsOfMonth(y, doy, (5 * doy + 2) \div 153, rem)

FieldsOfYearOfEra(era, doe, yoe, rem) ==
  FieldsOfDayOfYear(yoe + era * 400, doe - (365 * yoe + yoe \div 4 - yoe \div 100), rem)

FieldsOfDayOfEra(era, doe, rem) ==
  FieldsOfYearOfEra(era, doe,
                    (doe - doe \div 1460 + doe \div 36524 - doe \div 146096) \div 365, rem)

FieldsOfDay(z, rem) == FieldsOfDayOfEra(z \div 146097, z % 146097, rem)

DateFields(sec) == FieldsOfDay(sec \div 86400 + 719468, sec % 86400)

JoinFields(f, d, sep, t) ==
  NumberToString(f.YYYY) \o d \o PadStart2(f.MM) \o d \o PadStart2(f.DD)
  \o sep \o PadStart2(f.hh) \o t \o PadStart2(f.mm) \o t \o PadStart2(f.ss)

\* `${YYYY}-${MM}-${DD}_${hh}-${mm}-${ss}`
formatDate(date) ==
  IF date = NaN THEN "NaN-NaN-NaN_NaN-NaN-NaN"
  ELSE JoinFields(DateFields(date), "-", "_", "-")

\* `${YYYY}:${MM}:${DD} ${hh}:${mm}:${ss}`
formatExifDate(date) ==
  IF date = NaN THEN "NaN:NaN:NaN NaN:NaN:NaN"
  ELSE JoinFields(DateFields(date), ":", " ", ":")

(***************************************************************************)
(* Paths.  A remote or local path is the sequence of its "/"-separated     *)
(* segments; path.join(dir, name).replace(/\\/g, "/") appends a segment.   *)
(***************************************************************************)
Dirname(p) == SubSeq(p, 1, Len(p) - 1)

Basename(p) == p[Len(p)]

\* path.join normalises "." and ".." segments
PathJoin(dir, name) ==
  IF name = "." THEN dir
  ELSE IF name = ".." THEN Dirname(dir)
  ELSE Append(dir, name)

(***************************************************************************)
(* The text smbclient prints for `dir <path>/*` (samba-client's dir()).    *)
(***************************************************************************)
RECURSIVE Spaces(_)
Spaces(n) == IF n <= 0 THEN "" ELSE " " \o Spaces(n - 1)

\* one entry: "  %-30s%7.7s %8.0f  %s"
ListingLine(name, attr) ==
  "  " \o name \o Spaces(30 - Len(name)) \o Spaces(7 - Len(attr)) \o attr
       \o "        0  Tue May 20 10:00:00 2025"

KnownEntries == KnownNames \X {"A", "D"}

KnownLines == [e \in KnownEntries |-> ListingLine(e[1], e[2])]

LineOf(name, attr) ==
  IF <<name, attr>> \in KnownEntries THEN KnownLines[<<name, attr>>]
  ELSE ListingLine(name, attr)

SummaryLine == "\t\t61440 blocks of size 1024. 1024 blocks available"

\* the output of dir(), line by line (what split('\n') returns): "." and "..",
\* the entries in the order given, a blank line, the summary line and the
\* empty string after the last newline
DirResult(entries) ==
  <<LineOf(".", "D"), LineOf("..", "D")>>
  \o [k \in 1..Len(entries) |-> LineOf(entries[k].name, entries[k].attr)]
  \o <<"", SummaryLine, "">>

(***************************************************************************)
(* Bounds of the model                                                     *)
(***************************************************************************)
\* most media/sidecar files in the Renamer's source directory
MaxSourceFiles == 3

\* most runs of the Renamer (or of the Mover) over the same share
MaxRuns == 2

\* most files in one "Google Photos" folder of the Mover's source
MaxFolderFiles == 2

\* most entries of a directory listing given to the parsers on their own
MaxListed == 3

\* largest suffix (n) among the known names NewFileName is tried on
MaxSuffix == 10

\* most transient failures (network, exiftool) injected in one behaviour
MaxFaults == 1

(***************************************************************************)
(* Configuration constants of the two scripts                              *)
(***************************************************************************)
\* merge-google-takeout.ts
REMOTE_SOURCE_PATH == <<"!Pictures", "Google Takeout 2025-05-20">>

REMOTE_TARGET_PATH == PathJoin(REMOTE_SOURCE_PATH, "merged")

\* the rename script: its REMOTE_SOURCE_PATH is the Mover's target
RENAMER_SOURCE_PATH == <<"!Pictures", "Google Takeout 2025-05-20", "merged">>

REMOTE_PROCESSED_PATH == <<"!Pictures", "Google Takeout 2025-05-20", "processed">>

\* os.tmpdir()
TMPDIR == <<"tmp">>

(***************************************************************************)
(* State                                                                   *)
(***************************************************************************)
VARIABLES
  IS_DRY_RUN,   \* the dry-run flag of the running script
  dirs,         \* remote share: the set of directory paths
  files,        \* remote share: file path -> content
  local,        \* local disk (os.tmpdir()): file path -> content
  pc,           \* position of the running script
  stack,        \* call stack of processDirectory / mergeDirectoryContents frames
  call,         \* arguments of the call being entered: [sourceDir, targetDir]
  cur,          \* Renamer: the entry inside the try block; Driver: loop state
  run,          \* number of the current run of the script
  faults,       \* transient failures injected so far
  aborted,      \* an exception reached the top-level handler
  uploads,      \* history: sendFile calls that succeeded, in order
  moves,        \* history: rename attempts of the Mover, in order
  mutations,    \* history: mutating remote operations executed
  visited,      \* history: [run, dir, name] of entries the loops reached
  cleanup,      \* history: a staging copy awaits its unlink attempt
  failed,       \* history: remote or local operations that failed unexpectedly
  start,        \* the share as it was when the current run started
  rank,         \* the order in which the server lists entry names
  probe         \* input/output of the pure-function specifications

vars == <<IS_DRY_RUN, dirs, files, local, pc, stack, call, cur, run, faults,
          aborted, uploads, moves, mutations, visited, cleanup, failed, start, rank,
          probe>>

(***************************************************************************)
(* The remote share behind smbClient                                       *)
(***************************************************************************)
NoMeta == [valid |-> TRUE, photoTakenTime |-> "", creationTime |-> ""]

\* content of a media file: id names the bytes, ftype is what exiftool reports
\* as FileTypeExtension ("" when it reports none), taken the embedded date
Media(id, ftype) ==
  [kind |-> "media", id |-> id, ftype |-> ftype, taken |-> "", meta |-> NoMeta]

\* content of a sidecar: meta.valid is FALSE when the text is not JSON
Sidecar(meta) ==
  [kind |-> "json", id |-> "", ftype |-> "", taken |-> "", meta |-> meta]

FilePaths(fs) == DOMAIN fs

Range(seq) == {seq[k] : k \in 1..Len(seq)}

Put(fs, p, data) == [q \in (DOMAIN fs) \cup {p} |-> IF q = p THEN data ELSE fs[q]]

Remove(fs, p) == [q \in (DOMAIN fs) \ {p} |-> fs[q]]

\* the entries of directory d, as [name, attr]
ChildEntries(d) ==
  {[name |-> Basename(p), attr |-> "D"] : p \in {q \in dirs : Dirname(q) = d}}
  \cup {[name |-> Basename(p), attr |-> "A"] : p \in {q \in FilePaths(files) : Dirname(q) = d}}

\* the orders in which the server may list a set of entries
Orders(S) ==
  {o \in [1..Cardinality(S) -> S] : \A i, j \in 1..Cardinality(S) : o[i] = o[j] => i = j}

RECURSIVE AnyOrder(_)
AnyOrder(S) ==
  IF S = {} THEN <<>> ELSE LET x == CHOOSE x \in S : TRUE IN <<x>> \o AnyOrder(S \ {x})

\* the server lists a directory in its directory order: the entries named in
\* rank in that order, then the entries created since
InRankOrder(S) ==
  LET ranked == {e \in S : e.name \in Range(rank)}
  IN  SelectSeq([k \in 1..Len(rank) |->
                   IF \E e \in ranked : e.name = rank[k]
                   THEN CHOOSE e \in ranked : e.name = rank[k]
                   ELSE [name |-> "", attr |-> ""]],
                LAMBDA e : e.name # "")
      \o AnyOrder(S \ ranked)

\* smbClient.mkdir(p) succeeds iff p is free and its parent is a directory
CanMkdir(p) == p \notin dirs /\ p \notin FilePaths(files) /\ Dirname(p) \in dirs

\* smbClient.sendFile(_, p) succeeds iff p's parent is a directory and p is none
CanSend(p) == Dirname(p) \in dirs /\ p \notin dirs

(***************************************************************************)
(* Remote Listing Parser, as each script inlines it                        *)
(***************************************************************************)
KeepsLineKeepsSummary(line) == Trim(line) # ""

\* .filter(line => { trimmed = line.trim(); return trimmed && !trimmed.includes("blocks of size") })
KeepsLine(line) == Trim(line) # "" /\ ~Includes(Trim(line), "blocks of size")

MergeKeepsLineDropsDotted(line) ==
  /\ Trim(line) # ""
  /\ ~Includes(Trim(line), "blocks of size")
  /\ ~Includes(Trim(line), ".")

\* the Mover also drops every line that starts with "."
MergeKeepsLine(line) ==
  /\ Trim(line) # ""
  /\ ~Includes(Trim(line), "blocks of size")
  /\ ~StartsWith(Trim(line), ".")

\* line.trim().split(/\s{2,}/)[0]
EntryName(line) == FirstColumn(Trim(line))

\* line.includes(" D ")
IsDirectoryLine(line) == Includes(line, " D ")

\* the Driver's folder name: line.split(" D ")[0].trim()
FolderName(line) == Trim(BeforeFirst(line, " D "))

LineFacts(line) ==
  [keeps |-> KeepsLine(line), mergeKeeps |-> MergeKeepsLine(line),
   entryName |-> EntryName(line), isDirectory |-> IsDirectoryLine(line),
   folderName |-> FolderName(line)]

KnownLineSet == {KnownLines[e] : e \in KnownEntries} \cup {"", SummaryLine}

ParsedLines == [line \in KnownLineSet |-> LineFacts(line)]

Parsed(line) == IF line \in KnownLineSet THEN ParsedLines[line] ELSE LineFacts(line)

ListedLines(lines) == SelectSeq(lines, LAMBDA line : Parsed(line).keeps)

MergeListedLines(lines) == SelectSeq(lines, LAMBDA line : Parsed(line).mergeKeeps)

ParseEntries(lines) ==
  [k \in 1..Len(lines) |->
     [entryName |-> Parsed(lines[k]).entryName,
      isDirectory |-> Parsed(lines[k]).isDirectory]]

RECURSIVE Dedup(_, _)
Dedup(seq, seen) ==
  IF seq = <<>> THEN <<>>
  ELSE IF Head(seq) \in seen THEN Dedup(Tail(seq), seen)
  ELSE <<Head(seq)>> \o Dedup(Tail(seq), seen \cup {Head(seq)})

\* new Set(allEntries.map(entryName)), in insertion order
FileNames(allEntries) == Dedup([k \in 1..Len(allEntries) |-> allEntries[k].entryName], {})

OriginalsToSkipCaseSensitive(fileNames) ==
  {ReplaceEdited(name) : name \in {n \in Range(fileNames) : Includes(n, "-edited")}}

\* the names whose lower-cased form contains "-edited" mark their original
OriginalsToSkip(fileNames) ==
  {ReplaceEdited(name) : name \in {n \in Range(fileNames) : Includes(Lower(n), "-edited")}}

\* new Set(targetEntries.map(line => line.trim().split(/\s{2,}/)[0]))
ExistingTargetFiles(targetEntries) ==
  {Parsed(targetEntries[k]).entryName : k \in 1..Len(targetEntries)}

\* [...fileNames].find(f => f.startsWith(entryName) && f.endsWith(".json"))
FindJson(fileNames, entryName) ==
  LET hits == {k \in 1..Len(fileNames) :
                 StartsWith(fileNames[k], entryName) /\ EndsWith(fileNames[k], ".json")}
  IN  IF hits = {} THEN "" ELSE fileNames[CHOOSE k \in hits : \A j \in hits : k <= j]

(***************************************************************************)
(* Renamer: processDirectory                                               *)
(***************************************************************************)
Top == stack[Len(stack)]

SetTop(f) == [stack EXCEPT ![Len(stack)] = f]

Pop == SubSeq(stack, 1, Len(stack) - 1)

RECURSIVE NextFreeName(_, _, _, _, _)
\* while (existingTargetFiles.has(newFileName)) { newFileName = base(counter).ext; counter++ }
NextFreeName(newFileName, counter, finalNewBaseName, correctExtension, existingTargetFiles) ==
  IF newFileName \in existingTargetFiles
  THEN NextFreeName(finalNewBaseName \o "(" \o NumberToString(counter) \o ")." \o correctExtension,
                    counter + 1, finalNewBaseName, correctExtension, existingTargetFiles)
  ELSE newFileName

NewFileNameSkipsOne(finalNewBaseName, correctExtension, existingTargetFiles) ==
  NextFreeName(finalNewBaseName \o "." \o correctExtension, 2,
               finalNewBaseName, correctExtension, existingTargetFiles)

NewFileName(finalNewBaseName, correctExtension, existingTargetFiles) ==
  NextFreeName(finalNewBaseName \o "." \o correctExtension, 1,
               finalNewBaseName, correctExtension, existingTargetFiles)

Outcome(result, name, taken, jsonLeft, tagged, faulted) ==
  [result |-> result, name |-> name, taken |-> taken, jsonLeft |-> jsonLeft,
   tagged |-> tagged, faulted |-> faulted]

\* lines 166-185: the (dead) second check, the dry-run branch, tag and upload
PlaceRenamed(f, fault, newFileName, exifDate) ==
  IF newFileName \in f.existingTargetFiles
  THEN Outcome("already-processed", newFileName, "", FALSE, FALSE, FALSE)
  ELSE IF IS_DRY_RUN
  THEN Outcome("dry-upload", newFileName, exifDate, FALSE, FALSE, FALSE)
  ELSE IF fault = "writeTags"
  THEN Outcome("error", newFileName, "", FALSE, FALSE, TRUE)
  ELSE IF fault = "sendFile" \/ ~CanSend(PathJoin(f.targetDir, newFileName))
  THEN Outcome("error", newFileName, exifDate, FALSE, TRUE, fault = "sendFile")
  ELSE Outcome("uploaded", newFileName, exifDate, FALSE, TRUE, FALSE)

\* lines 155-157: formatDate(takenDate) plus "-edited" for an edited variant
FinalNewBaseName(entryName, takenDate) ==
  formatDate(takenDate) \o (IF Includes(Lower(entryName), "-edited") THEN "-edited" ELSE "")

\* line 153: (fileTags.FileTypeExtension || path.extname(entryName).substring(1)).toLowerCase()
CorrectExtension(entryName, ftype) ==
  Lower(IF ftype # "" THEN ftype ELSE ExtName(entryName))

\* lines 151-185
RenameWith(f, entryName, fault, ftype, takenDate) ==
  IF fault = "readTags"
  THEN Outcome("error", "", "", FALSE, FALSE, TRUE)
  ELSE PlaceRenamed(f, fault,
                    NewFileName(FinalNewBaseName(entryName, takenDate),
                                CorrectExtension(entryName, ftype),
                                f.existingTargetFiles),
                    formatExifDate(takenDate))

\* line 145: metadata.photoTakenTime?.timestamp || metadata.creationTime?.timestamp
Timestamp(metadata) ==
  IF metadata.photoTakenTime # "" THEN metadata.photoTakenTime ELSE metadata.creationTime

\* lines 139-151: fetch and parse the sidecar, take its timestamp
WithSidecar(f, entryName, fault, ftype, jsonPath) ==
  IF fault = "getJson" \/ jsonPath \notin FilePaths(files)
  THEN Outcome("error", "", "", FALSE, FALSE, fault = "getJson")
  ELSE IF ~files[jsonPath].meta.valid
  THEN Outcome("error", "", "", TRUE, FALSE, FALSE)
  ELSE IF Timestamp(files[jsonPath].meta) = ""
  THEN Outcome("no-timestamp", "", "", FALSE, FALSE, FALSE)
  ELSE RenameWith(f, entryName, fault, ftype, ParseInt(Timestamp(files[jsonPath].meta)))

\* lines 123-137: no sidecar, the file is copied under its own name
CopyAsIs(f, entryName, fault, taken) ==
  IF entryName \in f.existingTargetFiles
  THEN Outcome("exists", entryName, "", FALSE, FALSE, FALSE)
  ELSE IF IS_DRY_RUN
  THEN Outcome("dry-copy", entryName, "", FALSE, FALSE, FALSE)
  ELSE IF fault = "sendFile" \/ ~CanSend(PathJoin(f.targetDir, entryName))
  THEN Outcome("error", entryName, "", FALSE, FALSE, fault = "sendFile")
  ELSE Outcome("copied", entryName, taken, FALSE, FALSE, FALSE)

WithJsonFileName(f, entryName, fault, staged, jsonFileName) ==
  IF jsonFileName = ""
  THEN CopyAsIs(f, entryName, fault, staged.taken)
  ELSE WithSidecar(f, entryName, fault, staged.ftype, PathJoin(f.sourceDir, jsonFileName))

\* lines 122-185: the try block after the media file is staged, up to the catch
TryBody(f, entryName, fault) ==
  WithJsonFileName(f, entryName, fault, local[PathJoin(TMPDIR, entryName)],
                   FindJson(f.fileNames, entryName))

Failure(op, dir, name) == [run |-> run, op |-> op, dir |-> dir, name |-> name]

Reached(dir, name) == visited \cup {[run |-> run, dir |-> dir, name |-> name]}

\* lines 61-98: list the target (mkdir when that fails), list the source,
\* build fileNames and originalsToSkip
EnterDirectory ==
  /\ pc = "enter"
  /\ \E fault \in {"none", "listTarget", "listSource"} :
     LET targetListed == call.targetDir \in dirs /\ fault # "listTarget"
         sourceListed == call.sourceDir \in dirs /\ fault # "listSource"
         targetEntries == ListedLines(DirResult(InRankOrder(ChildEntries(call.targetDir))))
         doMkdir == ~targetListed /\ ~IS_DRY_RUN
     IN
     /\ fault # "none" => faults < MaxFaults /\ call.sourceDir \in dirs
     /\ fault = "listTarget" => call.targetDir \in dirs
     /\ faults' = IF fault = "none" THEN faults ELSE faults + 1
     /\ dirs' = IF doMkdir /\ CanMkdir(call.targetDir)
                THEN dirs \cup {call.targetDir} ELSE dirs
     /\ mutations' = IF doMkdir
                     THEN mutations \cup {[by |-> "Renamer", op |-> "mkdir"]}
                     ELSE mutations
     /\ IF sourceListed
        THEN   LET order == InRankOrder(ChildEntries(call.sourceDir))
                   allEntries == ParseEntries(ListedLines(DirResult(order)))
                   fileNames  == FileNames(allEntries)
               IN  /\ stack' = Append(stack,
                       [sourceDir |-> call.sourceDir,
                        targetDir |-> call.targetDir,
                        existingTargetFiles |->
                          IF targetListed
                          THEN ExistingTargetFiles(targetEntries)
                          ELSE {},
                        allEntries |-> allEntries,
                        fileNames |-> fileNames,
                        originalsToSkip |-> OriginalsToSkip(fileNames),
                        i |-> 1])
                   /\ pc' = "loop"
                   /\ UNCHANGED aborted
        ELSE \* the listing error propagates to processGoogleTakeout
             /\ stack' = <<>>
             /\ pc' = "done"
             /\ aborted' = TRUE
     /\ failed' = IF sourceListed THEN failed
                  ELSE failed \cup {Failure("list", call.sourceDir, "")}
  /\ UNCHANGED <<IS_DRY_RUN, files, local, call, cur, run, uploads, moves, visited,
                 cleanup, start, rank, probe>>

Entry == Top.allEntries[Top.i]

AtEntry == pc = "loop" /\ Top.i <= Len(Top.allEntries)

Advance == SetTop([Top EXCEPT !.i = @ + 1])

\* line 106: "." and ".." are passed over
SkipDotEntry ==
  /\ AtEntry
  /\ Entry.isDirectory
  /\ Entry.entryName \in {".", ".."}
  /\ stack' = Advance
  /\ UNCHANGED <<IS_DRY_RUN, dirs, files, local, pc, call, cur, run, faults, aborted,
                 uploads, moves, mutations, visited, cleanup, failed, start, rank, probe>>

\* lines 105-110: recurse into a subdirectory
RecurseInto ==
  /\ AtEntry
  /\ Entry.isDirectory
  /\ Entry.entryName \notin {".", ".."}
  /\ call' = [sourceDir |-> PathJoin(Top.sourceDir, Entry.entryName),
              targetDir |-> PathJoin(Top.targetDir, Entry.entryName)]
  /\ stack' = Advance
  /\ pc' = "enter"
  /\ visited' = Reached(Top.sourceDir, Entry.entryName)
  /\ UNCHANGED <<IS_DRY_RUN, dirs, files, local, cur, run, faults, aborted, uploads,
                 moves, mutations, cleanup, failed, start, rank, probe>>

IsSkippedJsonOnly(f, entryName) == EndsWith(Lower(entryName), ".json")

\* line 112: sidecars and originals that have an edited version
IsSkipped(f, entryName) ==
  EndsWith(Lower(entryName), ".json") \/ entryName \in f.originalsToSkip

\* lines 112-116
SkipEntry ==
  /\ AtEntry
  /\ ~Entry.isDirectory
  /\ IsSkipped(Top, Entry.entryName)
  /\ stack' = Advance
  /\ visited' = Reached(Top.sourceDir, Entry.entryName)
  /\ UNCHANGED <<IS_DRY_RUN, dirs, files, local, pc, call, cur, run, faults, aborted,
                 uploads, moves, mutations, cleanup, failed, start, rank, probe>>

PcAfterTrySkipsCleanup(result) ==
  IF result \in {"exists", "no-timestamp", "already-processed"} THEN "loop" ELSE "finally"

\* lines 186-190: every exit of the try block (continue, fall through, throw)
\* passes through the finally clause
PcAfterTry(result) == "finally"

PcAfterFinallyRethrows(result) == IF result = "error" THEN "done" ELSE "loop"

\* lines 186-187: the catch logs the error and swallows it, so the loop goes on
PcAfterFinally(result) == "loop"

\* lines 118-120: stage the file locally; a failed getFile goes to the catch
StageFile ==
  /\ AtEntry
  /\ ~Entry.isDirectory
  /\ ~IsSkipped(Top, Entry.entryName)
  /\ \E fault \in {"none", "getFile"} :
     LET sourcePath   == PathJoin(Top.sourceDir, Entry.entryName)
         tempFilePath == PathJoin(TMPDIR, Entry.entryName)
         ok == fault = "none" /\ sourcePath \in FilePaths(files)
     IN
     /\ fault # "none" => faults < MaxFaults
     /\ faults' = IF fault = "none" THEN faults ELSE faults + 1
     /\ local' = IF ok THEN Put(local, tempFilePath, files[sourcePath]) ELSE local
     /\ cur' = [entryName |-> Entry.entryName, tempFilePath |-> tempFilePath,
                result |-> IF ok THEN "staged" ELSE "error"]
     /\ pc' = IF ok THEN "try" ELSE PcAfterTry("error")
     /\ failed' = IF ok THEN failed
                  ELSE failed \cup {Failure("file", Top.sourceDir, Entry.entryName)}
  /\ stack' = Advance
  /\ visited' = Reached(Top.sourceDir, Entry.entryName)
  /\ cleanup' = TRUE
  /\ UNCHANGED <<IS_DRY_RUN, dirs, files, call, run, aborted, uploads, moves,
                 mutations, start, rank, probe>>

\* the staged copy after the try block: retagged when exiftool.write ran
Retagged(staged, o) == IF o.tagged THEN [staged EXCEPT !.taken = o.taken] ELSE staged

\* the effects of the try block with outcome o
Effects(o, fault, targetPath, tagged, jsonFileName) ==
  /\ fault # "none" => faults < MaxFaults /\ o.faulted
  /\ faults' = IF o.faulted THEN faults + 1 ELSE faults
  /\ local' = IF o.jsonLeft
              THEN Put(Put(local, cur.tempFilePath, tagged),
                       PathJoin(TMPDIR, jsonFileName),
                       files[PathJoin(Top.sourceDir, jsonFileName)])
              ELSE Put(local, cur.tempFilePath, tagged)
  /\ files' = IF o.result \in {"copied", "uploaded"}
              THEN Put(files, targetPath, tagged) ELSE files
  /\ uploads' = IF o.result \in {"copied", "uploaded"}
                THEN Append(uploads,
                       [run |-> run, from |-> Top.sourceDir, dir |-> Top.targetDir,
                        src |-> cur.entryName,
                        name |-> o.name,
                        kind |-> IF o.result = "copied" THEN "copied" ELSE "renamed",
                        existed |-> targetPath \in FilePaths(files),
                        taken |-> tagged.taken])
                ELSE uploads
  /\ mutations' = IF o.result \in {"copied", "uploaded"}
                     \/ (o.result = "error" /\ ~IS_DRY_RUN /\ (o.tagged \/ fault = "sendFile"))
                  THEN mutations \cup {[by |-> "Renamer", op |-> "upload"]}
                  ELSE mutations
  /\ stack' = IF o.result = "uploaded"
              THEN SetTop([Top EXCEPT !.existingTargetFiles = @ \cup {o.name}])
              ELSE stack
  /\ failed' = IF o.result = "error"
               THEN failed \cup {Failure("file", Top.sourceDir, cur.entryName)}
               ELSE failed
  /\ cur' = [cur EXCEPT !.result = o.result]
  /\ pc' = PcAfterTry(o.result)

\* lines 122-185: the rest of the try block for the staged file
ProcessStaged ==
  /\ pc = "try"
  /\ \E fault \in {"none", "getJson", "readTags", "writeTags", "sendFile"} :
       \E o \in {TryBody(Top, cur.entryName, fault)} :
         Effects(o, fault, PathJoin(Top.targetDir, o.name),
                 Retagged(local[cur.tempFilePath], o),
                 FindJson(Top.fileNames, cur.entryName))
  /\ UNCHANGED <<IS_DRY_RUN, dirs, call, run, aborted, moves, visited, cleanup,
                 start, rank, probe>>

\* lines 188-190: try { await fs.unlink(tempFilePath) } catch { }
Finally ==
  /\ pc = "finally"
  /\ local' = IF cur.tempFilePath \in FilePaths(local)
              THEN Remove(local, cur.tempFilePath) ELSE local
  /\ cleanup' = FALSE
  /\ pc' = PcAfterFinally(cur.result)
  /\ stack' = IF PcAfterFinally(cur.result) = "done" THEN <<>> ELSE stack
  /\ aborted' = IF PcAfterFinally(cur.result) = "done" THEN TRUE ELSE aborted
  /\ UNCHANGED <<IS_DRY_RUN, dirs, files, call, cur, run, faults, uploads, moves,
                 mutations, visited, failed, start, rank, probe>>

\* line 191-192: the loop is over, processDirectory returns to its caller
ReturnFromDirectory ==
  /\ pc = "loop"
  /\ Top.i > Len(Top.allEntries)
  /\ stack' = Pop
  /\ pc' = IF Len(stack) = 1 THEN "done" ELSE "loop"
  /\ UNCHANGED <<IS_DRY_RUN, dirs, files, local, call, cur, run, faults, aborted,
                 uploads, moves, mutations, visited, cleanup, failed, start, rank, probe>>

\* the operator runs the script again over the same share
RunRenamerAgain ==
  /\ pc = "done"
  /\ run < MaxRuns
  /\ run' = run + 1
  /\ pc' = "enter"
  /\ call' = [sourceDir |-> RENAMER_SOURCE_PATH, targetDir |-> REMOTE_PROCESSED_PATH]
  /\ aborted' = FALSE
  /\ start' = [dirs |-> dirs, files |-> files]
  /\ UNCHANGED <<IS_DRY_RUN, dirs, files, local, stack, cur, faults, uploads, moves,
                 mutations, visited, cleanup, failed, rank, probe>>

(***************************************************************************)
(* Inputs of the Renamer: the contents of the merged and processed trees   *)
(***************************************************************************)
EmptyFs == [q \in {} |-> NoMeta]

\* sidecar contents: photoTakenTime, creationTime only, no timestamp, not JSON
Metas ==
  { [valid |-> TRUE,  photoTakenTime |-> "1609459200", creationTime |-> "1078099199"],
    [valid |-> TRUE,  photoTakenTime |-> "",           creationTime |-> "1078099199"],
    NoMeta,
    [valid |-> FALSE, photoTakenTime |-> "",           creationTime |-> ""] }

TakenMeta == [valid |-> TRUE, photoTakenTime |-> "1609459200", creationTime |-> "1078099199"]

\* the files the source directory may hold (the first sidecar's content varies)
SourceFiles(meta) ==
  [q \in {"IMG_0001.jpg", "IMG_0001.jpg.json", "IMG_0001-edited.jpg",
          "IMG_0002.JPG", "IMG_0002.JPG.json", "IMG_0002-EDITED.JPG",
          "2021-01-01_00-00-00.jpg"} |->
     CASE q = "IMG_0001.jpg"            -> Media("IMG_0001", "jpg")
       [] q = "IMG_0001.jpg.json"       -> Sidecar(meta)
       [] q = "IMG_0001-edited.jpg"     -> Media("IMG_0001-edited", "jpg")
       [] q = "IMG_0002.JPG"            -> Media("IMG_0002", "")
       [] q = "IMG_0002.JPG.json"       -> Sidecar(TakenMeta)
       [] q = "IMG_0002-EDITED.JPG"     -> Media("IMG_0002-edited", "JPEG")
       [] q = "2021-01-01_00-00-00.jpg" -> Media("earlier-export", "jpg")]

AlbumDir == PathJoin(RENAMER_SOURCE_PATH, "Album")

AlbumFile == PathJoin(AlbumDir, "clip.mp4")

\* the processed tree before the first run: absent, empty, or holding one file
TargetStates ==
  { [dirs |-> {}, files |-> EmptyFs],
    [dirs |-> {REMOTE_PROCESSED_PATH}, files |-> EmptyFs],
    [dirs |-> {REMOTE_PROCESSED_PATH},
     files |-> Put(EmptyFs, PathJoin(REMOTE_PROCESSED_PATH, "2021-01-01_00-00-00.jpg"),
                   Media("already-there", "jpg"))] }

InitHistory ==
  /\ local = EmptyFs
  /\ stack = <<>>
  /\ cur = [entryName |-> "", tempFilePath |-> "", result |-> ""]
  /\ aborted = FALSE
  /\ uploads = <<>>
  /\ moves = <<>>
  /\ mutations = {}
  /\ visited = {}
  /\ cleanup = FALSE
  /\ failed = {}
  /\ probe = "none"

RenamerShare ==
  /\ IS_DRY_RUN \in BOOLEAN
  /\ \E names \in SUBSET DOMAIN SourceFiles(NoMeta), album \in BOOLEAN,
        meta \in Metas, t \in TargetStates :
       /\ Cardinality(names) + (IF album THEN 1 ELSE 0) <= MaxSourceFiles
       /\ "IMG_0001.jpg.json" \notin names => meta = NoMeta
       /\ dirs = {REMOTE_SOURCE_PATH, RENAMER_SOURCE_PATH} \cup t.dirs
                 \cup (IF album THEN {AlbumDir} ELSE {})
       /\ files = [q \in {PathJoin(RENAMER_SOURCE_PATH, n) : n \in names}
                         \cup (IF album THEN {AlbumFile} ELSE {})
                         \cup DOMAIN t.files |->
                     IF q \in DOMAIN t.files THEN t.files[q]
                     ELSE IF q = AlbumFile THEN Media("clip", "mp4")
                     ELSE SourceFiles(meta)[Basename(q)]]
  /\ start = [dirs |-> dirs, files |-> files]
  /\ rank \in Orders({Basename(q) : q \in {r \in dirs \cup FilePaths(files) :
                                              Dirname(r) = RENAMER_SOURCE_PATH}})
  /\ pc = "enter"
  /\ call = [sourceDir |-> RENAMER_SOURCE_PATH, targetDir |-> REMOTE_PROCESSED_PATH]
  /\ InitHistory

\* runs and reruns of the Renamer in which no remote or exiftool call fails
\* for a transient reason
InitRenamer == RenamerShare /\ run = 1 /\ faults = MaxFaults

\* one run of the Renamer in which up to MaxFaults calls fail
InitRenamerFaults == RenamerShare /\ run = 1 /\ faults = 0

NextRenamer ==
  \/ EnterDirectory
  \/ SkipDotEntry
  \/ RecurseInto
  \/ SkipEntry
  \/ StageFile
  \/ ProcessStaged
  \/ Finally
  \/ ReturnFromDirectory
  \/ RunRenamerAgain

SpecRenamer == InitRenamer /\ [][NextRenamer]_vars

NextRenamerOnce ==
  \/ EnterDirectory
  \/ SkipDotEntry
  \/ RecurseInto
  \/ SkipEntry
  \/ StageFile
  \/ ProcessStaged
  \/ Finally
  \/ ReturnFromDirectory

SpecRenamerFaults == InitRenamerFaults /\ [][NextRenamerOnce]_vars

(***************************************************************************)
(* Mover and Driver: merge-google-takeout.ts                               *)
(***************************************************************************)
\* smbclient's rename: fails when the destination exists, when the source is
\* missing or when the destination's directory is missing
CanRename(sourcePath, targetPath) ==
  /\ sourcePath \in FilePaths(files)
  /\ targetPath \notin FilePaths(files)
  /\ targetPath \notin dirs
  /\ Dirname(targetPath) \in dirs

Moved(sourcePath, targetPath) ==
  Put(Remove(files, sourcePath), targetPath, files[sourcePath])

MoveFileOverwrites(sourcePath, targetPath) ==
  IF sourcePath \in FilePaths(files) /\ Dirname(targetPath) \in dirs
  THEN Moved(sourcePath, targetPath) ELSE files

\* lines 76-83: try { rename } catch { skip }: the share after the attempt
MoveFile(sourcePath, targetPath) ==
  IF CanRename(sourcePath, targetPath) THEN Moved(sourcePath, targetPath) ELSE files

\* lines 100-128: create the target, list the source root, pick the folders
\* whose name starts with "Takeout"
TakeoutFolders(lines) ==
  SelectSeq([k \in 1..Len(lines) |->
               IF Parsed(lines[k]).isDirectory THEN Parsed(lines[k]).folderName ELSE ""],
            LAMBDA name : StartsWith(name, "Takeout"))

Reorganize ==
  /\ pc = "reorganize"
  /\ dirs' = IF CanMkdir(REMOTE_TARGET_PATH) THEN dirs \cup {REMOTE_TARGET_PATH} ELSE dirs
  /\ mutations' = mutations \cup {[by |-> "Driver", op |-> "mkdir"]}
  /\ IF REMOTE_SOURCE_PATH \in dirs
     THEN \E folders \in {TakeoutFolders(ListedLines(DirResult(
                             InRankOrder(ChildEntries(REMOTE_SOURCE_PATH)))))} :
            /\ cur' = [takeoutFolders |-> folders, k |-> 1]
            /\ pc' = IF folders = <<>> THEN "done" ELSE "folders"
            /\ UNCHANGED <<failed, aborted>>
     ELSE /\ failed' = failed \cup {Failure("list", REMOTE_SOURCE_PATH, "")}
          /\ aborted' = TRUE
          /\ pc' = "done"
          /\ UNCHANGED cur
  /\ UNCHANGED <<IS_DRY_RUN, files, local, stack, call, run, faults, uploads, moves,
                 visited, cleanup, start, rank, probe>>

GooglePhotosPath(folderName) ==
  PathJoin(PathJoin(REMOTE_SOURCE_PATH, folderName), "Google Photos")

\* lines 130-141: a folder without "Google Photos" is passed over
SkipFolder ==
  /\ pc = "folders"
  /\ cur.k <= Len(cur.takeoutFolders)
  /\ GooglePhotosPath(cur.takeoutFolders[cur.k]) \notin dirs \cup FilePaths(files)
  /\ cur' = [cur EXCEPT !.k = @ + 1]
  /\ UNCHANGED <<IS_DRY_RUN, dirs, files, local, pc, stack, call, run, faults, aborted,
                 uploads, moves, mutations, visited, cleanup, failed, start, rank, probe>>

\* lines 130-137: mergeDirectoryContents(googlePhotosPath, REMOTE_TARGET_PATH)
MergeFolder ==
  /\ pc = "folders"
  /\ cur.k <= Len(cur.takeoutFolders)
  /\ GooglePhotosPath(cur.takeoutFolders[cur.k]) \in dirs \cup FilePaths(files)
  /\ call' = [sourceDir |-> GooglePhotosPath(cur.takeoutFolders[cur.k]),
              targetDir |-> REMOTE_TARGET_PATH]
  /\ cur' = [cur EXCEPT !.k = @ + 1]
  /\ pc' = "merge"
  /\ UNCHANGED <<IS_DRY_RUN, dirs, files, local, stack, run, faults, aborted,
                 uploads, moves, mutations, visited, cleanup, failed, start, rank, probe>>

\* line 143: every folder has been handled
FoldersDone ==
  /\ pc = "folders"
  /\ cur.k > Len(cur.takeoutFolders)
  /\ pc' = "done"
  /\ UNCHANGED <<IS_DRY_RUN, dirs, files, local, stack, call, cur, run, faults, aborted,
                 uploads, moves, mutations, visited, cleanup, failed, start, rank, probe>>

\* lines 43-57 and 87-89: list the source (an error ends this call only),
\* then create the target directory, ignoring a failure
EnterMerge ==
  /\ pc = "merge"
  /\ IF call.sourceDir \in dirs
     THEN /\ stack' = Append(stack,
               [sourceDir |-> call.sourceDir,
                targetDir |-> call.targetDir,
                allEntries |-> ParseEntries(MergeListedLines(DirResult(
                                 InRankOrder(ChildEntries(call.sourceDir))))),
                i |-> 1])
          /\ dirs' = IF CanMkdir(call.targetDir) THEN dirs \cup {call.targetDir} ELSE dirs
          /\ mutations' = mutations \cup {[by |-> "Mover", op |-> "mkdir"]}
          /\ failed' = IF call.targetDir \in dirs \/ CanMkdir(call.targetDir) THEN failed
                       ELSE failed \cup {Failure("mkdir", call.targetDir, "")}
          /\ pc' = "mloop"
     ELSE /\ failed' = failed \cup {Failure("list", call.sourceDir, "")}
          /\ pc' = IF stack = <<>> THEN "folders" ELSE "mloop"
          /\ UNCHANGED <<stack, dirs, mutations>>
  /\ UNCHANGED <<IS_DRY_RUN, files, local, call, cur, run, faults, aborted, uploads,
                 moves, visited, cleanup, start, rank, probe>>

AtMergeEntry == pc = "mloop" /\ Top.i <= Len(Top.allEntries)

\* lines 67-70: recurse into a subdirectory
MergeSubdirectory ==
  /\ AtMergeEntry
  /\ Entry.isDirectory
  /\ call' = [sourceDir |-> PathJoin(Top.sourceDir, Entry.entryName),
              targetDir |-> PathJoin(Top.targetDir, Entry.entryName)]
  /\ stack' = Advance
  /\ pc' = "merge"
  /\ visited' = Reached(Top.sourceDir, Entry.entryName)
  /\ UNCHANGED <<IS_DRY_RUN, dirs, files, local, cur, run, faults, aborted, uploads,
                 moves, mutations, cleanup, failed, start, rank, probe>>

\* lines 71-85: move one file, or only log the move in a dry run
MoveEntry ==
  /\ AtMergeEntry
  /\ ~Entry.isDirectory
  /\ \E sourcePath \in {PathJoin(Top.sourceDir, Entry.entryName)},
        targetPath \in {PathJoin(Top.targetDir, Entry.entryName)} :
       IF IS_DRY_RUN
       THEN UNCHANGED <<files, moves, mutations, failed>>
       ELSE /\ files' = MoveFile(sourcePath, targetPath)
            /\ moves' = Append(moves,
                          [run |-> run, src |-> sourcePath, tgt |-> targetPath,
                           free |-> targetPath \notin dirs \cup FilePaths(files),
                           found |-> IF targetPath \in FilePaths(files)
                                     THEN files[targetPath].id ELSE "",
                           ok |-> CanRename(sourcePath, targetPath)])
            /\ mutations' = mutations \cup {[by |-> "Mover", op |-> "rename"]}
            /\ failed' = IF CanRename(sourcePath, targetPath)
                            \/ targetPath \in dirs \cup FilePaths(files)
                         THEN failed
                         ELSE failed \cup {Failure("rename", Top.sourceDir, Entry.entryName)}
  /\ stack' = Advance
  /\ visited' = Reached(Top.sourceDir, Entry.entryName)
  /\ UNCHANGED <<IS_DRY_RUN, dirs, local, pc, call, cur, run, faults, aborted, uploads,
                 cleanup, start, rank, probe>>

\* line 86-90: the loop is over, mergeDirectoryContents returns
ReturnFromMerge ==
  /\ pc = "mloop"
  /\ Top.i > Len(Top.allEntries)
  /\ stack' = Pop
  /\ pc' = IF Len(stack) = 1 THEN "folders" ELSE "mloop"
  /\ UNCHANGED <<IS_DRY_RUN, dirs, files, local, call, cur, run, faults, aborted,
                 uploads, moves, mutations, visited, cleanup, failed, start, rank, probe>>

\* the operator runs the script again over the same share
RunMoverAgain ==
  /\ pc = "done"
  /\ run < MaxRuns
  /\ run' = run + 1
  /\ pc' = "reorganize"
  /\ aborted' = FALSE
  /\ start' = [dirs |-> dirs, files |-> files]
  /\ UNCHANGED <<IS_DRY_RUN, dirs, files, local, stack, call, cur, faults, uploads,
                 moves, mutations, visited, cleanup, failed, rank, probe>>

(***************************************************************************)
(* Inputs of the Mover: the Takeout folders and the merged tree            *)
(***************************************************************************)
\* the files a "Google Photos" folder may hold, relative to it
FolderFiles ==
  { <<"IMG_0001.jpg">>, <<".nomedia">>, <<"IMG D 3.jpg">>,
    <<"Album", "clip.mp4">>, <<".trash", "IMG_0001.jpg">> }

\* a Takeout folder: absent, without "Google Photos", or with some files in it
FolderShapes ==
  { [present |-> FALSE, photos |-> FALSE, rel |-> {}],
    [present |-> TRUE,  photos |-> FALSE, rel |-> {}] }
  \cup { [present |-> TRUE, photos |-> TRUE, rel |-> r] :
           r \in {x \in SUBSET FolderFiles : Cardinality(x) <= MaxFolderFiles} }

\* the merged tree before the first run
MergedShapes ==
  { [present |-> FALSE, rel |-> {}],
    [present |-> TRUE,  rel |-> {}],
    [present |-> TRUE,  rel |-> {<<"IMG_0001.jpg">>}],
    [present |-> TRUE,  rel |-> {<<"Album", "clip.mp4">>}] }

\* the directories strictly between base and base \o r, for r in rel
InnerDirs(base, rel) ==
  UNION {{base \o SubSeq(r, 1, n) : n \in 1..(Len(r) - 1)} : r \in rel}

FolderDirs(name, shape) ==
  IF ~shape.present THEN {}
  ELSE {PathJoin(REMOTE_SOURCE_PATH, name)}
       \cup (IF shape.photos
             THEN {GooglePhotosPath(name)} \cup InnerDirs(GooglePhotosPath(name), shape.rel)
             ELSE {})

FolderPaths(name, shape) == {GooglePhotosPath(name) \o r : r \in shape.rel}

MergedDirs(shape) ==
  IF shape.present
  THEN {REMOTE_TARGET_PATH} \cup InnerDirs(REMOTE_TARGET_PATH, shape.rel) ELSE {}

MergedPaths(shape) == {REMOTE_TARGET_PATH \o r : r \in shape.rel}

\* content of a file of the Mover's share: the id tells where it was at the start
InitialContent(q) == Media(q[Len(REMOTE_SOURCE_PATH) + 1] \o ":" \o Basename(q), "")

InitMover ==
  /\ IS_DRY_RUN \in BOOLEAN
  /\ \E s1 \in FolderShapes \ {[present |-> FALSE, photos |-> FALSE, rel |-> {}]},
        s2 \in FolderShapes, m \in MergedShapes :
       /\ dirs = {REMOTE_SOURCE_PATH, PathJoin(REMOTE_SOURCE_PATH, "Archive")}
                 \cup FolderDirs("Takeout 1", s1) \cup FolderDirs("Takeout 2", s2)
                 \cup MergedDirs(m)
       /\ files = [q \in FolderPaths("Takeout 1", s1) \cup FolderPaths("Takeout 2", s2)
                         \cup MergedPaths(m) |-> InitialContent(q)]
  /\ start = [dirs |-> dirs, files |-> files]
  /\ rank \in Orders({"Takeout 1", "Takeout 2"})
  /\ pc = "reorganize"
  /\ call = [sourceDir |-> REMOTE_SOURCE_PATH, targetDir |-> REMOTE_TARGET_PATH]
  /\ run = 1
  /\ faults = 0
  /\ InitHistory

NextMover ==
  \/ Reorganize
  \/ SkipFolder
  \/ MergeFolder
  \/ FoldersDone
  \/ EnterMerge
  \/ MergeSubdirectory
  \/ MoveEntry
  \/ ReturnFromMerge
  \/ RunMoverAgain

SpecMover == InitMover /\ [][NextMover]_vars

(***************************************************************************)
(* NewFileName on its own: every set of known names built from a base name *)
(* and its suffixed forms                                                  *)
(***************************************************************************)
DecimalNames ==
  <<"1", "2", "3", "4", "5", "6", "7", "8", "9", "10", "11", "12", "13", "14", "15">>

\* base(n).ext written out, n >= 1; base.ext for n = 0
Candidate(base, n, ext) ==
  IF n = 0 THEN base \o "." \o ext
  ELSE base \o "(" \o DecimalNames[n] \o ")." \o ext

InitNewFileName ==
  /\ \E base \in {"2021-01-01_00-00-00", "2004-02-29_23-59-59-edited"},
        ext \in {"jpg"},
        taken \in SUBSET (0..MaxSuffix) :
       probe = [base |-> base, ext |-> ext,
                known |-> {Candidate(base, n, ext) : n \in taken}
                          \cup {".", "..", "IMG_0001.jpg"},
                applied |-> FALSE, out |-> ""]
  /\ IS_DRY_RUN = FALSE
  /\ dirs = {}
  /\ files = EmptyFs
  /\ start = [dirs |-> dirs, files |-> files]
  /\ rank = <<>>
  /\ pc = "name"
  /\ call = [sourceDir |-> RENAMER_SOURCE_PATH, targetDir |-> REMOTE_PROCESSED_PATH]
  /\ run = 1
  /\ faults = 0
  /\ local = EmptyFs
  /\ stack = <<>>
  /\ cur = [entryName |-> "", tempFilePath |-> "", result |-> ""]
  /\ aborted = FALSE
  /\ uploads = <<>>
  /\ moves = <<>>
  /\ mutations = {}
  /\ visited = {}
  /\ cleanup = FALSE
  /\ failed = {}

\* lines 159-164 applied to the probe
ApplyNewFileName ==
  /\ pc = "name"
  /\ ~probe.applied
  /\ probe' = [probe EXCEPT !.applied = TRUE,
                            !.out = NewFileName(probe.base, probe.ext, probe.known)]
  /\ UNCHANGED <<IS_DRY_RUN, dirs, files, local, pc, stack, call, cur, run, faults,
                 aborted, uploads, moves, mutations, visited, cleanup, failed, start,
                 rank>>

SpecNewFileName == InitNewFileName /\ [][ApplyNewFileName]_vars

(***************************************************************************)
(* Properties of the Renamer                                               *)
(***************************************************************************)
\* p lies strictly below directory d
Below(d, p) == Len(d) < Len(p) /\ SubSeq(p, 1, Len(d)) = d

\* the entries of the Renamer's source tree, at any depth
SourceEntries == {q \in dirs \cup FilePaths(files) : Below(RENAMER_SOURCE_PATH, q)}

\* the files the processed tree gained since the run started
NewTargetFiles ==
  {q \in FilePaths(files) : Below(REMOTE_PROCESSED_PATH, q) /\ q \notin FilePaths(start.files)}

\* C1: during one pass of the Renamer no two uploads go to the same name of one
\* target directory, and no upload goes to a name that is already present in
\* that directory, whether the file was renamed or copied unchanged.
C1_NoUploadCollision ==
  \A i \in DOMAIN uploads :
    /\ ~uploads[i].existed
    /\ \A j \in DOMAIN uploads :
         (j # i /\ uploads[j].run = uploads[i].run /\ uploads[j].dir = uploads[i].dir)
           => uploads[j].name # uploads[i].name

\* a file copied unchanged is overwritten by a later renamed file of the same pass
C1_CopyOverwritten ==
  \E i, j \in DOMAIN uploads :
    /\ i < j
    /\ uploads[i].run = uploads[j].run
    /\ uploads[i].dir = uploads[j].dir
    /\ uploads[i].name = uploads[j].name
    /\ uploads[i].kind = "copied"
    /\ uploads[j].kind = "renamed"
    /\ uploads[j].existed
    /\ uploads[i].src = "2021-01-01_00-00-00.jpg"
    /\ uploads[j].src = "IMG_0001.jpg"

\* C2: a second run of the Renamer over the unchanged source and the target
\* the first run produced uploads nothing, and leaves the files of the target
\* as the first run left them.
C2_RerunUploadsNothing ==
  run >= 2 => /\ \A i \in DOMAIN uploads : uploads[i].run = 1
              /\ files = start.files

\* the second run uploads a file the first run had renamed, under a suffixed name
C2_RerunDuplicates ==
  \E i, j \in DOMAIN uploads :
    /\ uploads[i].run = 1
    /\ uploads[j].run = 2
    /\ uploads[i].src = uploads[j].src
    /\ uploads[i].from = uploads[j].from
    /\ uploads[i].name = "2021-01-01_00-00-00.jpg"
    /\ uploads[j].name = "2021-01-01_00-00-00(1).jpg"

\* C5: when a source directory holds a file whose name contains "-edited" in
\* any letter case, the file of that directory named like it without the
\* marker is never uploaded, neither renamed nor copied.
C5_OriginalNeverUploaded ==
  \A i \in DOMAIN uploads :
    \A q \in FilePaths(start.files) :
      (Dirname(q) = uploads[i].from /\ Includes(Lower(Basename(q)), "-edited"))
        => uploads[i].src # ReplaceEdited(Basename(q))

\* the upper-case edited variant was uploaded and its original was passed over
C5_EditedUploadedOriginalSkipped ==
  /\ pc = "done"
  /\ PathJoin(RENAMER_SOURCE_PATH, "IMG_0002.JPG") \in FilePaths(files)
  /\ PathJoin(RENAMER_SOURCE_PATH, "IMG_0002.JPG.json") \in FilePaths(files)
  /\ [run |-> run, dir |-> RENAMER_SOURCE_PATH, name |-> "IMG_0002.JPG"] \in visited
  /\ \E i \in DOMAIN uploads :
       uploads[i].src = "IMG_0002-EDITED.JPG" /\ uploads[i].from = RENAMER_SOURCE_PATH

\* the share holds exactly the triple IMG_0001.jpg, its sidecar with
\* photoTakenTime 1609459200 and IMG_0001-edited.jpg, and no processed file
EditedTriple(share) ==
  /\ FilePaths(share.files) =
       {PathJoin(RENAMER_SOURCE_PATH, n) :
          n \in {"IMG_0001.jpg", "IMG_0001.jpg.json", "IMG_0001-edited.jpg"}}
  /\ share.files[PathJoin(RENAMER_SOURCE_PATH, "IMG_0001.jpg.json")].meta.photoTakenTime
       = "1609459200"
  /\ AlbumDir \notin share.dirs

\* C6: on the edited triple with an empty target, a run of the Renamer outputs
\* exactly one file, made from the edited variant, named from the sidecar's
\* time with "-edited" and carrying that time as its capture time.
C6_EditedTripleOutput ==
  (pc = "done" /\ run = 1 /\ ~IS_DRY_RUN /\ EditedTriple(start))
    => /\ NewTargetFiles = {PathJoin(REMOTE_PROCESSED_PATH, "2021-01-01_00-00-00-edited.jpg")}
       /\ \A q \in NewTargetFiles :
            files[q].id = "IMG_0001-edited" /\ files[q].taken = "2021:01:01 00:00:00"

\* on the edited triple the edited variant is output under its own name, untagged
C6_EditedCopiedAsIs ==
  /\ pc = "done" /\ run = 1 /\ ~IS_DRY_RUN /\ EditedTriple(start)
  /\ NewTargetFiles = {PathJoin(REMOTE_PROCESSED_PATH, "IMG_0001-edited.jpg")}
  /\ \A q \in NewTargetFiles : files[q].id = "IMG_0001-edited" /\ files[q].taken = ""

\* C9: when the run is over and no directory listing failed, the batch was not
\* aborted and every entry of the source tree, in every directory, was reached
\* by the loop, whatever per-file failures happened on the way.
C9_FailureIsolated ==
  (pc = "done" /\ \A f \in failed : f.op # "list")
    => /\ ~aborted
       /\ \A q \in SourceEntries :
            [run |-> run, dir |-> Dirname(q), name |-> Basename(q)] \in visited

\* a file failed, and an entry listed after it in the same directory was uploaded
C9_LaterEntryUploaded ==
  /\ pc = "done"
  /\ \E f \in failed : \E i \in DOMAIN uploads : \E a, b \in DOMAIN rank :
       /\ f.op = "file"
       /\ uploads[i].from = f.dir
       /\ a < b
       /\ rank[a] = f.name
       /\ rank[b] = uploads[i].src

\* C10: whenever the Renamer is between two entries (or entering a directory,
\* or done), no staging copy awaits removal and none is left on the local disk.
C10_StagingRemoved ==
  pc \in {"loop", "enter", "done"}
    => /\ ~cleanup
       /\ \A q \in FilePaths(local) : local[q].kind # "media"

\* a run that staged one file it copied and one that failed has none left
C10_CleanedAfterCopyAndError ==
  /\ pc = "done"
  /\ ~cleanup
  /\ \A q \in FilePaths(local) : local[q].kind # "media"
  /\ \E i \in DOMAIN uploads : uploads[i].kind = "copied"
  /\ \E f \in failed : f.op = "file" /\ [run |-> run, dir |-> f.dir, name |-> f.name] \in visited

(***************************************************************************)
(* Properties of NewFileName                                               *)
(***************************************************************************)
\* C7: the final name is base.ext when that is not a known name; otherwise it
\* is base(n).ext for the smallest n >= 1 whose base(n).ext is not known: all
\* of base(1).ext .. base(n-1).ext are known and base(n).ext is not.
C7_SmallestFreeSuffix ==
  probe.applied =>
    IF Candidate(probe.base, 0, probe.ext) \notin probe.known
    THEN probe.out = Candidate(probe.base, 0, probe.ext)
    ELSE \E n \in 1..(MaxSuffix + 1) :
           /\ probe.out = Candidate(probe.base, n, probe.ext)
           /\ probe.out \notin probe.known
           /\ \A k \in 1..(n - 1) : Candidate(probe.base, k, probe.ext) \in probe.known

\* base.ext, base(1).ext and base(3).ext are known: the name found is base(2).ext
C7_FirstGapTaken ==
  /\ probe.applied
  /\ probe.base = "2021-01-01_00-00-00"
  /\ {"2021-01-01_00-00-00.jpg", "2021-01-01_00-00-00(1).jpg", "2021-01-01_00-00-00(3).jpg"}
       \subseteq probe.known
  /\ "2021-01-01_00-00-00(2).jpg" \notin probe.known
  /\ probe.out = "2021-01-01_00-00-00(2).jpg"

(***************************************************************************)
(* Properties of the Mover and the Driver                                  *)
(***************************************************************************)
\* the files that were under a Takeout folder's "Google Photos" when the run started
MoverSourceFiles ==
  {q \in FilePaths(start.files) :
     \E name \in {"Takeout 1", "Takeout 2"} : Below(GooglePhotosPath(name), q)}

\* where a file under <source>/<folder>/Google Photos belongs in the merged tree
TargetOf(q) == REMOTE_TARGET_PATH \o SubSeq(q, Len(REMOTE_SOURCE_PATH) + 3, Len(q))

\* no name on the way from "Google Photos" down to q starts with "."
NoDotName(q) ==
  \A n \in (Len(REMOTE_SOURCE_PATH) + 3)..Len(q) : ~StartsWith(q[n], ".")

\* q was moved: it left the source and its content is at its target path
IsMoved(q) ==
  /\ q \notin FilePaths(files)
  /\ TargetOf(q) \in FilePaths(files)
  /\ files[TargetOf(q)] = start.files[q]

\* C3: a move attempted while the target name exists is not performed and
\* leaves the source file and the file found at the target as they were; a
\* second run after a completed first run leaves the whole share unchanged.
C3_MoverIdempotent ==
  /\ \A k \in DOMAIN moves :
       ~moves[k].free =>
         /\ ~moves[k].ok
         /\ moves[k].src \in FilePaths(files)
         /\ files[moves[k].src] = InitialContent(moves[k].src)
         /\ moves[k].found # "" =>
              /\ moves[k].tgt \in FilePaths(files)
              /\ files[moves[k].tgt].id = moves[k].found
  /\ run >= 2 => (dirs = start.dirs /\ files = start.files)

\* the first run moved a file, the second run met the name at the target
C3_SecondRunCollides ==
  /\ pc = "done"
  /\ run = 2
  /\ files = start.files
  /\ \E j, k \in DOMAIN moves :
       /\ moves[j].run = 1 /\ moves[j].ok
       /\ moves[k].run = 2 /\ ~moves[k].free /\ moves[k].found # ""

C8_DryRunMutatesNothing == IS_DRY_RUN => mutations = {}

\* in a dry run the Mover has created a directory of the merged tree
C8_DryRunCreatedDirectory ==
  /\ IS_DRY_RUN
  /\ [by |-> "Mover", op |-> "mkdir"] \in mutations
  /\ REMOTE_TARGET_PATH \notin start.dirs
  /\ PathJoin(REMOTE_TARGET_PATH, "Album") \in dirs

(***************************************************************************)
(* The listing parsers on their own: every small directory listing         *)
(***************************************************************************)
\* the entries a listed directory may hold: plain and dotted files and
\* directories, names with " D " inside, a name with two spaces inside
ListedEntries ==
  { [name |-> "IMG_0001.jpg",  attr |-> "A"],
    [name |-> ".nomedia",      attr |-> "A"],
    [name |-> ".trash",        attr |-> "D"],
    [name |-> "Album",         attr |-> "D"],
    [name |-> "Archive",       attr |-> "D"],
    [name |-> "Takeout 1",     attr |-> "D"],
    [name |-> "Takeout D 3",   attr |-> "D"],
    [name |-> "Takeout.zip",   attr |-> "A"],
    [name |-> "IMG D 3.jpg",   attr |-> "A"],
    [name |-> "IMG  0001.jpg", attr |-> "A"] }

\* the entry names the Mover's loop works on
MergeEntryNames(lines) ==
  {ParseEntries(MergeListedLines(lines))[k].entryName :
     k \in 1..Len(MergeListedLines(lines))}

InitListing ==
  /\ \E entries \in SUBSET ListedEntries :
       /\ Cardinality(entries) <= MaxListed
       /\ probe = [entries |-> entries, applied |-> FALSE,
                   mergeNames |-> {}, takeoutFolders |-> {},
                   fileNames |-> {}, existingTargetFiles |-> {}]
  /\ IS_DRY_RUN = FALSE
  /\ dirs = {}
  /\ files = EmptyFs
  /\ start = [dirs |-> dirs, files |-> files]
  /\ rank = <<>>
  /\ pc = "list"
  /\ call = [sourceDir |-> RENAMER_SOURCE_PATH, targetDir |-> REMOTE_PROCESSED_PATH]
  /\ run = 1
  /\ faults = 0
  /\ local = EmptyFs
  /\ stack = <<>>
  /\ cur = [entryName |-> "", tempFilePath |-> "", result |-> ""]
  /\ aborted = FALSE
  /\ uploads = <<>>
  /\ moves = <<>>
  /\ mutations = {}
  /\ visited = {}
  /\ cleanup = FALSE
  /\ failed = {}

\* the listing of the probe's directory goes through each component's parser
ParseListing ==
  /\ pc = "list"
  /\ ~probe.applied
  /\ \E lines \in {DirResult(AnyOrder(probe.entries))} :
       probe' = [probe EXCEPT
                   !.applied = TRUE,
                   !.mergeNames = MergeEntryNames(lines),
                   !.takeoutFolders = Range(TakeoutFolders(ListedLines(lines))),
                   !.fileNames = Range(FileNames(ParseEntries(ListedLines(lines)))),
                   !.existingTargetFiles = ExistingTargetFiles(ListedLines(lines))]
  /\ UNCHANGED <<IS_DRY_RUN, dirs, files, local, pc, stack, call, cur, run, faults,
                 aborted, uploads, moves, mutations, visited, cleanup, failed, start,
                 rank>>

SpecListing == InitListing /\ [][ParseListing]_vars

(***************************************************************************)
(* Properties of the listing parsers                                       *)
(***************************************************************************)
\* the names of the probe's listed entries, as the server holds them
ListedNames == {e.name : e \in probe.entries}

\* a listed name as a parser reads it: the text before the first run of two spaces
AsRead(name) ==
  IF IndexOf(name, "  ") = 0 THEN name ELSE SubSeq(name, 1, IndexOf(name, "  ") - 1)

\* a folder name as the Driver reads it: the text before the first " D "
AsFolder(name) ==
  IF IndexOf(name, " D ") = 0 THEN name ELSE SubSeq(name, 1, IndexOf(name, " D ") - 1)

EditedSourceFiles(meta) ==
  [q \in {"IMG_0001.jpg", "IMG_0001.jpg.json", "IMG_0001-edited.jpg",
          "IMG_0001-edited.jpg.json", "IMG_0002.JPG", "IMG_0002-EDITED.JPG"} |->
     CASE q = "IMG_0001.jpg"             -> Media("IMG_0001", "jpg")
       [] q = "IMG_0001.jpg.json"        -> Sidecar(TakenMeta)
       [] q = "IMG_0001-edited.jpg"      -> Media("IMG_0001-edited", "jpg")
       [] q = "IMG_0001-edited.jpg.json" -> Sidecar(meta)
       [] q = "IMG_0002.JPG"             -> Media("IMG_0002", "")
       [] q = "IMG_0002-EDITED.JPG"      -> Media("IMG_0002-edited", "JPEG")]

\* the processed tree before the run: absent, or holding the name the edited
\* variant would be copied to, or the name it would be renamed to
EditedTargetStates ==
  { [dirs |-> {}, files |-> EmptyFs],
    [dirs |-> {REMOTE_PROCESSED_PATH},
     files |-> Put(EmptyFs, PathJoin(REMOTE_PROCESSED_PATH, "IMG_0001-edited.jpg"),
                   Media("already-there", "jpg"))],
    [dirs |-> {REMOTE_PROCESSED_PATH},
     files |-> Put(EmptyFs, PathJoin(REMOTE_PROCESSED_PATH, "2021-01-01_00-00-00-edited.jpg"),
                   Media("already-there", "jpg"))] }

\* a file of the subdirectory Album named like an original of its parent
AlbumOriginal == PathJoin(AlbumDir, "IMG_0001.jpg")

\* one real (not dry) run of the Renamer, with up to MaxFaults failing calls,
\* over a source directory that holds at least one edited variant
InitRenamerEdited ==
  /\ IS_DRY_RUN = FALSE
  /\ \E names \in SUBSET DOMAIN EditedSourceFiles(NoMeta), album \in BOOLEAN,
        meta \in Metas, t \in EditedTargetStates :
       /\ Cardinality(names) + (IF album THEN 1 ELSE 0) <= MaxSourceFiles
       /\ names \cap {"IMG_0001-edited.jpg", "IMG_0002-EDITED.JPG"} # {}
       /\ "IMG_0001-edited.jpg.json" \notin names => meta = NoMeta
       /\ dirs = {REMOTE_SOURCE_PATH, RENAMER_SOURCE_PATH} \cup t.dirs
                 \cup (IF album THEN {AlbumDir} ELSE {})
       /\ files = [q \in {PathJoin(RENAMER_SOURCE_PATH, n) : n \in names}
                         \cup (IF album THEN {AlbumOriginal} ELSE {})
                         \cup DOMAIN t.files |->
                     IF q \in DOMAIN t.files THEN t.files[q]
                     ELSE IF q = AlbumOriginal THEN Media("Album/IMG_0001", "jpg")
                     ELSE EditedSourceFiles(meta)[Basename(q)]]
  /\ start = [dirs |-> dirs, files |-> files]
  /\ rank \in Orders({Basename(q) : q \in {r \in dirs \cup FilePaths(files) :
                                              Dirname(r) = RENAMER_SOURCE_PATH}})
  /\ pc = "enter"
  /\ call = [sourceDir |-> RENAMER_SOURCE_PATH, targetDir |-> REMOTE_PROCESSED_PATH]
  /\ run = 1
  /\ faults = 0
  /\ InitHistory

SpecRenamerEdited == InitRenamerEdited /\ [][NextRenamerOnce]_vars

(***************************************************************************)
(* Properties of the Renamer on edited variants                            *)
(***************************************************************************)
\* the names in directory d that carry the "-edited" marker, in any letter case
MarkedNames(d) ==
  {Basename(q) : q \in {r \in FilePaths(start.files) :
                          Dirname(r) = d /\ Includes(Lower(Basename(r)), "-edited")}}

\* the names the marked names of d stand for once the marker is removed
OriginalsOf(d) == {ReplaceEdited(n) : n \in MarkedNames(d)}

\* the content ids of the marked file n of d and of its original, when present
IdsOfPair(d, n) ==
  {start.files[q].id :
     q \in {PathJoin(d, n), PathJoin(d, ReplaceEdited(n))} \cap FilePaths(start.files)}

\* C12: in every call of processDirectory the set of originals to exclude is
\* the one the source listing gives, whatever has happened since; no original
\* of an edited variant is uploaded; and when the edited variant itself was
\* not uploaded (skipped or failed), the target gained no file made from it
\* or from its original.
C12_OriginalsFixedBeforeProcessing ==
  /\ \A k \in DOMAIN stack : stack[k].originalsToSkip = OriginalsOf(stack[k].sourceDir)
  /\ \A i \in DOMAIN uploads : uploads[i].src \notin OriginalsOf(uploads[i].from)
  /\ \A n \in MarkedNames(RENAMER_SOURCE_PATH) :
       (\A i \in DOMAIN uploads : uploads[i].src # n)
         => \A q \in NewTargetFiles : files[q].id \notin IdsOfPair(RENAMER_SOURCE_PATH, n)

\* the edited variant had a sidecar without a timestamp and was skipped; its
\* original, listed with it, was passed over and the target gained nothing
C12_EditedSkippedOriginalExcluded ==
  /\ pc = "done"
  /\ ~IS_DRY_RUN
  /\ failed = {}
  /\ uploads = <<>>
  /\ NewTargetFiles = {}
  /\ {Basename(q) : q \in {r \in FilePaths(files) : Dirname(r) = RENAMER_SOURCE_PATH}}
       = {"IMG_0001.jpg", "IMG_0001-edited.jpg", "IMG_0001-edited.jpg.json"}
  /\ AlbumDir \notin dirs
  /\ PathJoin(REMOTE_PROCESSED_PATH, "IMG_0001-edited.jpg") \notin FilePaths(start.files)
  /\ [run |-> run, dir |-> RENAMER_SOURCE_PATH, name |-> "IMG_0001.jpg"] \in visited
  /\ [run |-> run, dir |-> RENAMER_SOURCE_PATH, name |-> "IMG_0001-edited.jpg"] \in visited

====
